---- MODULE Spec2Model ----
(***************************************************************************)
(* Session / pipeline orchestration of the live voice agent.               *)
(*                                                                         *)
(*   src/src/main.py      websocket_audio : one handler per connection     *)
(*   src/src/agent.py     process_audio, end_session : the orchestrator    *)
(*   src/src/session.py   Session, create_session : the session store      *)
(*   src/src/analysis.py  analyze_conversation : end-of-session analysis   *)
(*   src/src/stt.py       transcribe : the Recognition Adapter             *)
(*   src/src/tts.py       synthesize, _get_pipeline : the Synthesis Adapter *)
(*                                                                         *)
(* Five specifications are stated over the same variables.                 *)
(*   Spec          the server: every connection runs websocket_audio.      *)
(*   SpecRegistry  the server, with session.remove_session called from     *)
(*                 outside at any time.                                    *)
(*   SpecAgent     the orchestrator on its own: a caller awaits            *)
(*                 process_audio any number of times on its session and    *)
(*                 then calls end_session once.                            *)
(*   SpecStt       one call of stt.transcribe on any audio.                *)
(*   SpecTts       tasks calling tts.synthesize.                           *)
(*                                                                         *)
(* The external collaborators (converter, Recognizer, Responder,           *)
(* Synthesizer, Summarizer) are oracles: what each would do with a frame   *)
(* is carried by the frame, what the Summarizer does is chosen when it is  *)
(* called.  Turn timestamps (time.time) are left out: nothing reads them   *)
(* but Session.last_activity, which nothing calls.                         *)
(***************************************************************************)
EXTENDS Integers, Sequences, FiniteSets, TLC

\* Bounds of the model.
NumConn == 2
NumCallers == 1
MaxFrames == 3
MaxSegments == 2

\* main.py:117, len(audio_webm) < 1000
MIN_AUDIO_BYTES == 1000

Conn == 1..NumConn

\* SpecAgent: the callers of the orchestrator.
Callers == 1..NumCallers

\* Optional[...]: None is the empty sequence, a value v is <<v>>.
None == <<>>
Some(v) == <<v>>

(***************************************************************************)
(* session.py                                                              *)
(***************************************************************************)
Turn(role, text, language) ==
    [role |-> role, text |-> text, language |-> language]

Session ==
    [turns |-> <<>>, ended |-> FALSE, summary |-> None, sentiment |-> None]

\* Mutant of add_turn: the turn put in front.
add_turn_front(s, role, text, language) ==
    [s EXCEPT !.turns = <<Turn(role, text, language)>> \o @]

\* session.py:26-27
add_turn(s, role, text, language) ==
    [s EXCEPT !.turns = Append(@, Turn(role, text, language))]

get_history(s) ==
    [i \in 1..Len(s.turns) |->
        [role |-> s.turns[i].role, text |-> s.turns[i].text]]

end(s) ==
    [s EXCEPT !.ended = TRUE]

\* session.py:46-49.  reg: the keys of _sessions.  The id is the first 12 hex
\* digits of a uuid4, taken here to be new each time.
create_session(reg, id) == reg \cup {id}

\* Mutant of get_session: a session that has ended is no longer found.
get_session_live_only(reg, ss, id) ==
    IF id \in reg /\ ~ss[id][1].ended THEN ss[id] ELSE <<>>

\* session.py:52-53: _sessions.get(session_id), None when the key is absent.
get_session(reg, ss, id) ==
    IF id \in reg THEN ss[id] ELSE <<>>

(***************************************************************************)
(* Frames a client can send (ws.receive).  A binary frame carries its size *)
(* and what the collaborators would do with its audio.                     *)
(***************************************************************************)
TextMsg(ctl) ==
    [kind |-> "text", ctl |-> ctl, size |-> 0, conv |-> TRUE, ffmpeg |-> "ok",
     sttOk |-> TRUE, text |-> "", lang |-> "",
     llmOk |-> TRUE, reply |-> "", ttsOk |-> TRUE]

BytesMsg(size, conv, sttOk, text, lang, llmOk, reply, ttsOk) ==
    [kind |-> "bytes", ctl |-> "", size |-> size, conv |-> conv,
     ffmpeg |-> IF conv THEN "ok" ELSE "exit_nonzero",
     sttOk |-> sttOk, text |-> text, lang |-> lang,
     llmOk |-> llmOk, reply |-> reply, ttsOk |-> ttsOk]

NoMsg == TextMsg("")

\* A binary frame whose conversion fails in the given way:
\*   exit_nonzero   ffmpeg exits with a status other than 0 (input it cannot
\*                  read, main.py:73), leaving no output file
\*   timeout        subprocess.run raises TimeoutExpired (main.py:70), a
\*                  partly written output file is left behind
\*   write_failed   writing the input file raises (main.py:52-54)
ConverterFault(mode) ==
    [BytesMsg(MIN_AUDIO_BYTES, FALSE, TRUE, "hello", "en", TRUE, "hi", TRUE)
        EXCEPT !.ffmpeg = mode]

\* JSON control frames: the two known types, an unknown type, and text that
\* json.loads rejects (or that is not an object, so data.get fails).
ControlFrames ==
    {TextMsg("end_session"), TextMsg("ping"), TextMsg("other"),
     TextMsg("malformed")}

\* Audio whose whole pipeline would succeed, with non-empty recognized text.
GoodAudio ==
    {BytesMsg(MIN_AUDIO_BYTES, TRUE, TRUE, "bonjour", "fr", TRUE, "salut", TRUE),
     BytesMsg(MIN_AUDIO_BYTES + 1, TRUE, TRUE, "hello", "en", TRUE, "hi", TRUE)}

\* Audio on which one stage fails, or that holds no speech.
FaultyAudio ==
    {BytesMsg(MIN_AUDIO_BYTES, TRUE, FALSE, "", "", TRUE, "", TRUE),
     BytesMsg(MIN_AUDIO_BYTES, TRUE, TRUE, "", "en", TRUE, "", TRUE),
     BytesMsg(MIN_AUDIO_BYTES, TRUE, TRUE, "hello", "en", FALSE, "", TRUE),
     BytesMsg(MIN_AUDIO_BYTES, TRUE, TRUE, "hello", "en", TRUE, "hi", FALSE)}

\* Frames the converter rejects, and frames below the threshold.
UnusableAudio ==
    {ConverterFault("exit_nonzero"), ConverterFault("timeout"),
     ConverterFault("write_failed"),
     BytesMsg(MIN_AUDIO_BYTES - 1, TRUE, TRUE, "hello", "en", TRUE, "hi", TRUE),
     BytesMsg(0, TRUE, TRUE, "", "", TRUE, "", TRUE)}

AudioFrames == GoodAudio \cup FaultyAudio \cup UnusableAudio

ClientFrames == ControlFrames \cup AudioFrames

(***************************************************************************)
(* Events the handler sends (ws.send_json, ws.send_bytes).                 *)
(***************************************************************************)
SessionStart(id) == [type |-> "session_start", session_id |-> id]
Pong == [type |-> "pong"]
Transcription(text, language) ==
    [type |-> "transcription", text |-> text, language |-> language]
Response(text) == [type |-> "response", text |-> text]
Audio(text) == [type |-> "audio", of |-> text]
Error(message) == [type |-> "error", message |-> message]

VARIABLES
    pc,          \* where each handler (or caller) is
    msg,         \* the frame it received last (main.py: message)
    sessions,    \* the Session objects, by id (the connection that made it)
    out,         \* everything sent to each client, in order
    calls,       \* how often each collaborator was invoked
    seq,         \* frames taken so far, per connection
    result,      \* what the orchestrator returned last (main.py: result)
    llm_history, \* the conversation_history the Responder was given last
    tmpfiles,    \* the temporary files on disk (main.py: _webm_to_wav)
    registry,    \* session.py: the ids that are keys of _sessions
    stt,         \* stt.py: one call of transcribe and the Recognizer it uses
    tts          \* tts.py: the configuration read and _pipelines

vars == <<pc, msg, sessions, out, calls, seq, result, llm_history, tmpfiles,
         registry, stt, tts>>

RECURSIVE Sum(_, _)
Sum(f, S) ==
    IF S = {} THEN 0
    ELSE LET x == CHOOSE y \in S : TRUE IN f[x] + Sum(f, S \ {x})

Taken == Sum(seq, DOMAIN seq)

Unset == [kind |-> "unset"]

(***************************************************************************)
(* analysis.py: analyze_conversation.  A result dict is a record of        *)
(* optional fields: a field is None when dict.get would return None.       *)
(* Scores are in tenths (5 is 0.5).                                        *)
(***************************************************************************)
Sentiment(overall, score, details) ==
    [overall |-> overall, score |-> score, details |-> details]

Dict(type, summary, sentiment, turn_count, languages_used) ==
    [kind |-> "dict", type |-> type, summary |-> summary,
     sentiment |-> sentiment, turn_count |-> turn_count,
     languages_used |-> languages_used]

Raised == [kind |-> "raised"]

\* analysis.py:33-38
EmptyResult ==
    Dict(None, Some("No conversation took place."),
         Some(Sentiment("neutral", 5, "Empty conversation.")),
         Some(0), Some(<<>>))

\* analysis.py:88-93
DegradedResult(history) ==
    Dict(None, Some("Analysis could not be completed."),
         Some(Sentiment("unknown", 5, "error text")),
         Some(Len(history)), Some(<<>>))

\* What can happen once the history is not empty:
\*   setup_raise    genai.configure / config (lines 40-41, before the try) raises
\*   call_raise     generate_content or response.text raises
\*   bad_json       json.loads rejects the text
\*   not_object     the JSON is no object: result["turn_count"] = ... raises
\*   bad_sentiment  "sentiment" is null or no object: the logging line raises
\*   the rest       a JSON object, with or without the fields asked for
SummarizerOutcomes ==
    {"setup_raise", "call_raise", "bad_json", "not_object", "bad_sentiment",
     "full", "no_summary", "no_sentiment", "typed"}

\* json.loads(raw) for the outcomes that parse to an object (line 81).
ParsedObject(o) ==
    Dict(IF o = "typed" THEN Some("note") ELSE None,
         IF o = "no_summary" THEN None ELSE Some("a summary"),
         IF o = "no_sentiment" THEN None
         ELSE Some(Sentiment("positive", 8, "friendly")),
         None, None)

\* Mutant of analyze_conversation: the empty history not short-circuited.
analyze_conversation_no_shortcut(history, o) ==
    IF o = "setup_raise" THEN Raised
    ELSE IF o \in {"call_raise", "bad_json", "not_object", "bad_sentiment"}
         THEN DegradedResult(history)
    ELSE [ParsedObject(o) EXCEPT !.turn_count = Some(Len(history))]

\* analysis.py:32-93
analyze_conversation(history, o) ==
    IF Len(history) = 0 THEN EmptyResult
    ELSE IF o = "setup_raise" THEN Raised
    ELSE IF o \in {"call_raise", "bad_json", "not_object", "bad_sentiment"}
         THEN DegradedResult(history)
    ELSE [ParsedObject(o) EXCEPT !.turn_count = Some(Len(history))]

\* Whether model.generate_content is reached (line 63).
CallsSummarizer(history, o) ==
    Len(history) > 0 /\ o # "setup_raise"

(***************************************************************************)
(* stt.py: transcribe.  Texts are sequences of characters, so that strip   *)
(* and join do what str.strip and str.join do.  The Recognizer             *)
(* (WhisperModel.transcribe) is an oracle: replies[1] is what it gives     *)
(* with the VAD filter on the audio, replies[2] what it gives without.     *)
(***************************************************************************)
RECURSIVE lstrip(_)
lstrip(t) ==
    IF t = <<>> THEN t
    ELSE IF Head(t) = " " THEN lstrip(Tail(t)) ELSE t

RECURSIVE rstrip(_)
rstrip(t) ==
    IF t = <<>> THEN t
    ELSE IF t[Len(t)] = " " THEN rstrip(SubSeq(t, 1, Len(t) - 1)) ELSE t

strip(t) == rstrip(lstrip(t))

\* " ".join(parts)
RECURSIVE join(_)
join(parts) ==
    IF parts = <<>> THEN <<>>
    ELSE IF Len(parts) = 1 THEN parts[1]
    ELSE parts[1] \o <<" ">> \o join(Tail(parts))

\* stt.py:73-77 and 83-86
full_text(segments) ==
    strip(join([i \in 1..Len(segments) |-> strip(segments[i])]))

\* What a segment can hold: nothing, blanks, a word, a word between blanks.
SegmentTexts == {<<>>, <<" ">>, <<"a">>, <<" ", "b", " ">>}

RECURSIVE SeqsUpTo(_, _)
SeqsUpTo(S, n) ==
    IF n = 0 THEN {<<>>}
    ELSE LET shorter == SeqsUpTo(S, n - 1)
         IN  shorter \cup {Append(q, x) : q \in shorter, x \in S}

\* (segments, info) as the Recognizer returns them, or an exception.
\* info.language: None, the empty string, or a language code.
RecognizerReplies ==
    [raises : {FALSE}, segments : SeqsUpTo(SegmentTexts, MaxSegments),
     language : {None, Some(""), Some("fr")}]
    \cup {[raises |-> TRUE, segments |-> <<>>, language |-> None]}

\* stt.py:61-71
FirstCall ==
    [beam_size |-> 5, vad_filter |-> TRUE,
     vad_parameters |-> Some([threshold |-> 3,
                              min_silence_duration_ms |-> 600,
                              min_speech_duration_ms |-> 100,
                              speech_pad_ms |-> 400])]

\* stt.py:82
SecondCall ==
    [beam_size |-> 5, vad_filter |-> FALSE, vad_parameters |-> None]

\* Mutant of needs_retry: the first result always kept.
needs_retry_never(text) == FALSE

\* stt.py:80: if not full_text
needs_retry(text) == text = <<>>

\* stt.py:88: info.language or "en"
detected_lang(language) ==
    IF language = None \/ language = Some("") THEN "en" ELSE language[1]

\* transcribe before its first statement, on audio the Recognizer answers
\* with the given replies.
SttCall(replies) ==
    [pc |-> "start", replies |-> replies, calls |-> <<>>,
     text |-> <<>>, language |-> None, returned |-> None]

\* No call of transcribe under way.
SttIdle == [SttCall(<<>>) EXCEPT !.pc = "idle"]

\* stt.py:61-77: the call with the VAD filter.
stt_first ==
    /\ stt.pc = "start"
    /\ LET r == stt.replies[1] IN
         stt' = IF r.raises
                THEN [stt EXCEPT !.pc = "raised", !.calls = Append(@, FirstCall)]
                ELSE [stt EXCEPT !.pc = "first_done",
                                 !.calls = Append(@, FirstCall),
                                 !.text = full_text(r.segments),
                                 !.language = r.language]
    /\ UNCHANGED <<pc, msg, sessions, out, calls, seq, result, llm_history,
                   tmpfiles, registry, tts>>

\* stt.py:80-86: the call without it, when the first gave no text.
stt_retry ==
    /\ stt.pc = "first_done"
    /\ needs_retry(stt.text)
    /\ LET r == stt.replies[2] IN
         stt' = IF r.raises
                THEN [stt EXCEPT !.pc = "raised", !.calls = Append(@, SecondCall)]
                ELSE [stt EXCEPT !.pc = "retried",
                                 !.calls = Append(@, SecondCall),
                                 !.text = full_text(r.segments),
                                 !.language = r.language]
    /\ UNCHANGED <<pc, msg, sessions, out, calls, seq, result, llm_history,
                   tmpfiles, registry, tts>>

\* stt.py:88-91
stt_return ==
    /\ \/ stt.pc = "first_done" /\ ~needs_retry(stt.text)
       \/ stt.pc = "retried"
    /\ stt' = [stt EXCEPT !.pc = "returned",
                          !.returned = Some([text |-> stt.text,
                                             language |-> detected_lang(stt.language)])]
    /\ UNCHANGED <<pc, msg, sessions, out, calls, seq, result, llm_history,
                   tmpfiles, registry, tts>>

(***************************************************************************)
(* tts.py: _resolve_voice, _get_pipeline, load, synthesize.  The           *)
(* configuration file (config/agent.yaml) is read, not written: config is  *)
(* its content.  _pipelines is the set of its keys; built counts the       *)
(* KPipeline objects made per language code.                               *)
(***************************************************************************)
LangCfg(voice, code) == [tts_voice |-> voice, tts_lang_code |-> code]

\* A configuration with both languages of the agent.
AgentYaml ==
    [default |-> Some("en"),
     supported |-> [k \in {"en", "fr"} |->
                       IF k = "en" THEN LangCfg(Some("af_heart"), Some("a"))
                       ELSE LangCfg(Some("ff_siwis"), Some("f"))]]

\* Configurations that make the fallbacks of _resolve_voice run: no entry
\* for "en" and another default; an entry without voice and code; none.
Configs ==
    {AgentYaml,
     [default |-> Some("fr"),
      supported |-> [k \in {"fr"} |-> LangCfg(Some("ff_siwis"), Some("f"))]],
     [default |-> None,
      supported |-> [k \in {"en", "fr"} |->
                        IF k = "en" THEN LangCfg(None, None)
                        ELSE LangCfg(Some("ff_siwis"), Some("f"))]],
     [default |-> None, supported |-> <<>>]}

\* The language codes the Recognizer may have detected.
DetectedLanguages == {"en", "fr", "id", "de"}

LangCodes == {"a", "f"}

\* tts.py:46-52
lang_key(cfg, detected_language) ==
    IF detected_language = "en" THEN "en"
    ELSE IF detected_language = "fr" THEN "fr"
    ELSE IF detected_language = "id" THEN "en"
    ELSE IF cfg.default # None THEN cfg.default[1] ELSE "en"

\* tts.py:37-58
resolve_voice(cfg, detected_language) ==
    LET key == lang_key(cfg, detected_language)
        lang_cfg == IF key \in DOMAIN cfg.supported THEN cfg.supported[key]
                    ELSE IF "en" \in DOMAIN cfg.supported
                    THEN cfg.supported["en"]
                    ELSE LangCfg(None, None)
    IN  [voice |-> IF lang_cfg.tts_voice # None
                   THEN lang_cfg.tts_voice[1] ELSE "af_heart",
         lang_code |-> IF lang_cfg.tts_lang_code # None
                       THEN lang_cfg.tts_lang_code[1] ELSE "a"]

\* Mutant of get_pipeline: a pipeline made on every call.
get_pipeline_uncached(t, lang_code, ok) ==
    IF ok
    THEN [t EXCEPT !.pipelines = @ \cup {lang_code},
                   !.built[lang_code] = @ + 1]
    ELSE t

\* tts.py:18-26.  ok: KPipeline(lang_code=...) returns; when it raises,
\* nothing is stored.  A plain function: nothing else runs between the
\* test and the assignment.
get_pipeline(t, lang_code, ok) ==
    IF lang_code \in t.pipelines THEN t
    ELSE IF ok
    THEN [t EXCEPT !.pipelines = @ \cup {lang_code},
                   !.built[lang_code] = @ + 1]
    ELSE t

\* The module as imported: nothing cached.
TtsStart(cfg) ==
    [config |-> cfg, pipelines |-> {}, built |-> [k \in LangCodes |-> 0],
     loaded |-> FALSE]

RECURSIVE load_each(_, _)
load_each(t, keys) ==
    IF keys = {} THEN t
    ELSE LET k == CHOOSE x \in keys : TRUE
             code == resolve_voice(t.config, k).lang_code
         IN  load_each(get_pipeline(t, code, TRUE), keys \ {k})

\* tts.py:29-34, every KPipeline constructor returning.
load(t) ==
    [load_each(t, DOMAIN t.config.supported) EXCEPT !.loaded = TRUE]

\* agent.py:21-27: load_models at start-up, before anything is synthesized.
tts_load ==
    /\ ~tts.loaded
    /\ Taken = 0
    /\ tts' = load(tts)
    /\ UNCHANGED <<pc, msg, sessions, out, calls, seq, result, llm_history,
                   tmpfiles, registry, stt>>

\* tts.py:61-98: task c calls synthesize(text, detected_language).
\* built: the KPipeline constructor returns; spoken: the pipeline and
\* soundfile do their work.
tts_synthesize(c) ==
    /\ Taken < MaxFrames
    /\ \E detected_language \in DetectedLanguages, made, spoken \in BOOLEAN :
         LET v == resolve_voice(tts.config, detected_language)
             t == get_pipeline(tts, v.lang_code, made)
         IN  /\ tts' = t
             /\ result' = [result EXCEPT ![c] =
                    IF v.lang_code \in t.pipelines /\ spoken
                    THEN [kind |-> "bytes", voice |-> v.voice,
                          lang_code |-> v.lang_code]
                    ELSE Raised]
    /\ seq' = [seq EXCEPT ![c] = @ + 1]
    /\ UNCHANGED <<pc, msg, sessions, out, calls, llm_history, tmpfiles,
                   registry, stt>>

(***************************************************************************)
(* main.py: websocket_audio, one pass of the receive loop.                 *)
(***************************************************************************)
\* main.py:52 and 56: the two files of the n-th conversion of connection c.
\* NamedTemporaryFile picks a name no existing file has.
TmpIn(c, n) == [conn |-> c, n |-> n, suffix |-> ".webm"]
TmpOut(c, n) == [TmpIn(c, n) EXCEPT !.suffix = ".wav"]

\* Mutant of unlink_both: the output file left behind.
unlink_input_only(fs, c, n) == fs \ {TmpIn(c, n)}

\* main.py:79-81: the finally block, unlink(missing_ok=True) on both paths.
unlink_both(fs, c, n) == fs \ {TmpIn(c, n), TmpOut(c, n)}

\* main.py:47-81.  fs: the files on disk before.  [ok: ffmpeg exited 0 and
\* the output was read back, files: the files on disk after].
webm_to_wav(m, c, n, fs) ==
    LET created == fs \cup {TmpIn(c, n)}
    IN  IF m.ffmpeg = "write_failed"
        \* raised before the try: the finally block is not reached
        THEN [ok |-> FALSE, files |-> created]
        ELSE LET ran == IF m.ffmpeg \in {"ok", "timeout"}
                        THEN created \cup {TmpOut(c, n)} ELSE created
             IN  [ok |-> m.ffmpeg = "ok", files |-> unlink_both(ran, c, n)]

\* main.py:136: result = agent.process_audio(audio_wav, session).
\* process_audio is declared async def (agent.py:30) and the call is not
\* awaited: it builds a coroutine object and runs none of the body.
call_process_audio(m, s) == [kind |-> "coroutine"]

\* Mutant of too_small: the threshold taken one byte too low.
too_small_off_by_one(m) == m.size = 0 \/ m.size < MIN_AUDIO_BYTES - 1

\* main.py:117
too_small(m) == m.size = 0 \/ m.size < MIN_AUDIO_BYTES

\* Mutant of cleanup: the finally block forgotten.
cleanup_forgotten(s) == s

\* main.py:173-175: the finally block.
cleanup(s) == IF ~s.ended THEN end(s) ELSE s

\* main.py:137-167: what the loop does with the value of result.
\* [sent: the events sent, go: where the handler is next].
dispatch_result(r) ==
    IF r.kind = "raised"
    THEN [sent |-> <<Error("Processing error. Please try again.")>>,
          go |-> "recv"]
    ELSE IF r.kind = "none"
    THEN [sent |-> <<Transcription("", "")>>, go |-> "recv"]
    ELSE IF r.kind = "response"
    THEN [sent |-> <<Transcription(r.user_text, r.detected_language),
                     Response(r.response_text), Audio(r.response_text)>>,
          go |-> "recv"]
    \* any other object has no attribute user_text: AttributeError at
    \* line 156, caught at line 171, and the handler returns.
    ELSE [sent |-> <<>>, go |-> "closed"]

\* main.py:115-167: a binary frame, the n-th of connection c.  conv:
\* converter runs, files: the temporary files on disk afterwards.
handle_bytes(m, s, c, n, fs) ==
    IF too_small(m)
    THEN [sent |-> <<Transcription("", "")>>, go |-> "recv", conv |-> 0,
          result |-> Unset, files |-> fs]
    ELSE LET w == webm_to_wav(m, c, n, fs) IN
         IF ~w.ok
         THEN [sent |-> <<Error("Audio format conversion failed.")>>,
               go |-> "recv", conv |-> 1, result |-> Unset, files |-> w.files]
         ELSE LET r == call_process_audio(m, s)
                  d == dispatch_result(r)
              IN  [sent |-> d.sent, go |-> d.go, conv |-> 1, result |-> r,
                   files |-> w.files]

\* Mutant of handle_text: ping treated as any other type, no pong sent.
handle_text_no_pong(m, fs) ==
    IF m.ctl = "malformed"
    THEN [sent |-> <<>>, go |-> "closed", conv |-> 0, result |-> Unset,
          files |-> fs]
    ELSE IF m.ctl = "end_session"
    THEN [sent |-> <<>>, go |-> "es_call", conv |-> 0, result |-> Unset,
          files |-> fs]
    ELSE [sent |-> <<>>, go |-> "recv", conv |-> 0, result |-> Unset,
          files |-> fs]

\* main.py:100-112: a text frame.  No file is touched.
handle_text(m, fs) ==
    IF m.ctl = "malformed"
    THEN [sent |-> <<>>, go |-> "closed", conv |-> 0, result |-> Unset,
          files |-> fs]
    ELSE IF m.ctl = "end_session"
    THEN [sent |-> <<>>, go |-> "es_call", conv |-> 0, result |-> Unset,
          files |-> fs]
    ELSE IF m.ctl = "ping"
    THEN [sent |-> <<Pong>>, go |-> "recv", conv |-> 0, result |-> Unset,
          files |-> fs]
    ELSE [sent |-> <<>>, go |-> "recv", conv |-> 0, result |-> Unset,
          files |-> fs]

handle_message(m, s, c, n, fs) ==
    IF m.kind = "text" THEN handle_text(m, fs)
    ELSE handle_bytes(m, s, c, n, fs)

\* main.py:86-93
Accept(c) ==
    /\ pc[c] = "idle"
    /\ pc' = [pc EXCEPT ![c] = "recv"]
    /\ sessions' = [sessions EXCEPT ![c] = Some(Session)]
    /\ registry' = create_session(registry, c)
    /\ out' = [out EXCEPT ![c] = <<SessionStart(c)>>]
    /\ UNCHANGED <<msg, calls, seq, result, llm_history>>
    /\ UNCHANGED <<tmpfiles, stt, tts>>

\* main.py:96-167: receive one frame and handle it up to the next receive,
\* the call of agent.end_session, or the handler's return.
Receive(c) ==
    /\ pc[c] = "recv"
    /\ Taken < MaxFrames
    /\ \E m \in ClientFrames :
         LET s == sessions[c][1]
             h == handle_message(m, s, c, seq[c] + 1, tmpfiles)
         IN  /\ msg' = [msg EXCEPT ![c] = m]
             /\ seq' = [seq EXCEPT ![c] = @ + 1]
             /\ out' = [out EXCEPT ![c] = @ \o h.sent]
             /\ pc' = [pc EXCEPT ![c] = h.go]
             /\ calls' = [calls EXCEPT !.conv = @ + h.conv]
             /\ result' = [result EXCEPT ![c] = h.result]
             /\ sessions' = [sessions EXCEPT ![c] =
                    IF h.go = "closed" THEN Some(cleanup(s)) ELSE @]
             /\ tmpfiles' = h.files
    /\ UNCHANGED <<llm_history, registry, stt, tts>>

\* Mutant of Disconnect: the cleanup ends every session there is.
Disconnect_ends_all(c) ==
    /\ pc[c] = "recv"
    /\ pc' = [pc EXCEPT ![c] = "closed"]
    /\ sessions' = [d \in Conn |->
           IF sessions[d] = None THEN None ELSE Some(cleanup(sessions[d][1]))]
    /\ UNCHANGED <<msg, out, calls, seq, result, llm_history>>
    /\ UNCHANGED <<tmpfiles, registry, stt, tts>>

\* main.py:169-175: the peer goes away while the handler waits in receive.
Disconnect(c) ==
    /\ pc[c] = "recv"
    /\ pc' = [pc EXCEPT ![c] = "closed"]
    /\ sessions' = [sessions EXCEPT ![c] = Some(cleanup(@[1]))]
    /\ UNCHANGED <<msg, out, calls, seq, result, llm_history>>
    /\ UNCHANGED <<tmpfiles, registry, stt, tts>>

(***************************************************************************)
(* agent.py: end_session, statement by statement.                          *)
(***************************************************************************)
\* Mutant of es_end: session.end() forgotten.
es_end_forgotten(c) ==
    /\ pc[c] = "es_call"
    /\ pc' = [pc EXCEPT ![c] = "es_analyze"]
    /\ UNCHANGED <<msg, sessions, out, calls, seq, result, llm_history>>
    /\ UNCHANGED <<tmpfiles, registry, stt, tts>>

\* agent.py:84
es_end(c) ==
    /\ pc[c] = "es_call"
    /\ pc' = [pc EXCEPT ![c] = "es_analyze"]
    /\ sessions' = [sessions EXCEPT ![c] = Some(end(@[1]))]
    /\ UNCHANGED <<msg, out, calls, seq, result, llm_history>>
    /\ UNCHANGED <<tmpfiles, registry, stt, tts>>

\* agent.py:85-86
es_analyze(c) ==
    /\ pc[c] = "es_analyze"
    /\ \E o \in SummarizerOutcomes :
         LET history == get_history(sessions[c][1])
             r == analyze_conversation(history, o)
         IN  /\ result' = [result EXCEPT ![c] = r]
             /\ pc' = [pc EXCEPT ![c] =
                    IF r.kind = "raised" THEN "es_raised" ELSE "es_store"]
             /\ calls' = [calls EXCEPT !.summarizer =
                    IF CallsSummarizer(history, o) THEN @ + 1 ELSE @]
    /\ UNCHANGED <<msg, sessions, out, seq, llm_history>>
    /\ UNCHANGED <<tmpfiles, registry, stt, tts>>

\* Mutant of store_analysis: the summary also recorded as a turn.
store_analysis_as_turn(s, r) ==
    [s EXCEPT !.summary = r.summary, !.sentiment = r.sentiment,
              !.turns = Append(@, Turn("assistant", "summary", "fr"))]

\* agent.py:87-88
store_analysis(s, r) ==
    [s EXCEPT !.summary = r.summary, !.sentiment = r.sentiment]

es_store(c) ==
    /\ pc[c] = "es_store"
    /\ pc' = [pc EXCEPT ![c] = "es_return"]
    /\ sessions' = [sessions EXCEPT ![c] = Some(store_analysis(@[1], result[c]))]
    /\ UNCHANGED <<msg, out, calls, seq, result, llm_history>>
    /\ UNCHANGED <<tmpfiles, registry, stt, tts>>

\* main.py:107: {"type": "summary", **result}; a "type" key of result wins.
SummaryEvent(r) ==
    [type |-> IF r.type # None THEN r.type[1] ELSE "summary",
     summary |-> r.summary, sentiment |-> r.sentiment,
     turn_count |-> r.turn_count, languages_used |-> r.languages_used]

\* Mutant of es_return: the break after the summary forgotten.
es_return_no_break(c) ==
    /\ pc[c] \in {"es_return", "es_raised"}
    /\ pc' = [pc EXCEPT ![c] = IF pc[c] = "es_return" THEN "recv" ELSE "closed"]
    /\ out' = [out EXCEPT ![c] =
           IF pc[c] = "es_return" THEN Append(@, SummaryEvent(result[c]))
           ELSE @]
    /\ sessions' = [sessions EXCEPT ![c] =
           IF pc[c] = "es_return" THEN @ ELSE Some(cleanup(@[1]))]
    /\ UNCHANGED <<msg, calls, seq, result, llm_history>>
    /\ UNCHANGED <<tmpfiles, registry, stt, tts>>

\* main.py:106-108 and 171-175: end_session returned (send the summary and
\* break) or raised (caught at line 171); either way the handler returns.
es_return(c) ==
    /\ pc[c] \in {"es_return", "es_raised"}
    /\ pc' = [pc EXCEPT ![c] = "closed"]
    /\ out' = [out EXCEPT ![c] =
           IF pc[c] = "es_return" THEN Append(@, SummaryEvent(result[c]))
           ELSE @]
    /\ sessions' = [sessions EXCEPT ![c] = Some(cleanup(@[1]))]
    /\ UNCHANGED <<msg, calls, seq, result, llm_history>>
    /\ UNCHANGED <<tmpfiles, registry, stt, tts>>

(***************************************************************************)
(* agent.py: process_audio, run by a caller that awaits it.                *)
(***************************************************************************)
\* agent.py:47.  stt.transcribe returns its text already stripped
\* (stt.py:77,86), so the text is blank after strip() only when it is "".
is_blank(text) == text = ""

\* agent.py:57: session.get_history()[:-1]
all_but_last(h) == SubSeq(h, 1, Len(h) - 1)

\* Mutant of conversation_history: the slice [:-1] forgotten.
conversation_history_whole(s) == get_history(s)

conversation_history(s) == all_but_last(get_history(s))

\* agent.py:62: tts_lang = "fr"
tts_lang == "fr"

\* tts.py:61: synthesize is a plain def: it returns bytes, or raises.
synthesize(m) ==
    IF m.ttsOk THEN [kind |-> "bytes", of |-> m.reply] ELSE Raised

\* agent.py:68: await applied to the value synthesize returned.  bytes is
\* not awaitable: TypeError.
await_value(v) ==
    IF v.kind = "awaitable" THEN [kind |-> "bytes", of |-> v.of] ELSE Raised

\* agent.py:70-75
AgentResponse(m, audio) ==
    [kind |-> "response", user_text |-> m.text, detected_language |-> m.lang,
     response_text |-> m.reply, audio_bytes |-> audio.of]

\* agent.py:45-52: transcribe, return None on blank text, record the user turn.
pa_transcribe(c) ==
    /\ pc[c] = "pa_stt"
    /\ calls' = [calls EXCEPT !.stt = @ + 1]
    /\ LET m == msg[c] IN
         IF ~m.sttOk
         THEN /\ result' = [result EXCEPT ![c] = Raised]
              /\ pc' = [pc EXCEPT ![c] = "drive"]
              /\ UNCHANGED sessions
         ELSE IF is_blank(m.text)
         THEN /\ result' = [result EXCEPT ![c] = [kind |-> "none"]]
              /\ pc' = [pc EXCEPT ![c] = "drive"]
              /\ UNCHANGED sessions
         ELSE /\ sessions' = [sessions EXCEPT ![c] =
                     Some(add_turn(@[1], "user", m.text, m.lang))]
              /\ pc' = [pc EXCEPT ![c] = "pa_llm"]
              /\ UNCHANGED result
    /\ UNCHANGED <<msg, out, seq, llm_history>>
    /\ UNCHANGED <<tmpfiles, registry, stt, tts>>

\* agent.py:54-65: ask the Responder, record the assistant turn.
pa_generate(c) ==
    /\ pc[c] = "pa_llm"
    /\ calls' = [calls EXCEPT !.llm = @ + 1]
    /\ llm_history' = [llm_history EXCEPT ![c] =
           conversation_history(sessions[c][1])]
    /\ LET m == msg[c] IN
         IF ~m.llmOk
         THEN /\ result' = [result EXCEPT ![c] = Raised]
              /\ pc' = [pc EXCEPT ![c] = "drive"]
              /\ UNCHANGED sessions
         ELSE /\ sessions' = [sessions EXCEPT ![c] =
                     Some(add_turn(@[1], "assistant", m.reply, tts_lang))]
              /\ pc' = [pc EXCEPT ![c] = "pa_tts"]
              /\ UNCHANGED result
    /\ UNCHANGED <<msg, out, seq>>
    /\ UNCHANGED <<tmpfiles, registry, stt, tts>>

\* agent.py:67-75: synthesize, await, return the AgentResponse.
pa_synthesize(c) ==
    /\ pc[c] = "pa_tts"
    /\ calls' = [calls EXCEPT !.tts = @ + 1]
    /\ LET m == msg[c]
           a == synthesize(m)
           audio == IF a.kind = "raised" THEN Raised ELSE await_value(a)
       IN  result' = [result EXCEPT ![c] =
               IF audio.kind = "raised" THEN Raised
               ELSE AgentResponse(m, audio)]
    /\ pc' = [pc EXCEPT ![c] = "drive"]
    /\ UNCHANGED <<msg, sessions, out, seq, llm_history>>
    /\ UNCHANGED <<tmpfiles, registry, stt, tts>>

\* A caller awaits process_audio on its session with some audio.
call_agent(c) ==
    /\ pc[c] = "drive"
    /\ Taken < MaxFrames
    /\ \E m \in GoodAudio \cup FaultyAudio :
         msg' = [msg EXCEPT ![c] = m]
    /\ seq' = [seq EXCEPT ![c] = @ + 1]
    /\ pc' = [pc EXCEPT ![c] = "pa_stt"]
    /\ UNCHANGED <<sessions, out, calls, result, llm_history>>
    /\ UNCHANGED <<tmpfiles, registry, stt, tts>>

\* The caller calls end_session.
call_end_session(c) ==
    /\ pc[c] = "drive"
    /\ pc' = [pc EXCEPT ![c] = "es_call"]
    /\ UNCHANGED <<msg, sessions, out, calls, seq, result, llm_history>>
    /\ UNCHANGED <<tmpfiles, registry, stt, tts>>

\* end_session returned, or raised, to the caller.
agent_return(c) ==
    /\ pc[c] \in {"es_return", "es_raised"}
    /\ pc' = [pc EXCEPT ![c] = "done"]
    /\ UNCHANGED <<msg, sessions, out, calls, seq, result, llm_history>>
    /\ UNCHANGED <<tmpfiles, registry, stt, tts>>

NoCalls == [conv |-> 0, stt |-> 0, llm |-> 0, tts |-> 0, summarizer |-> 0]

Init ==
    /\ pc = [c \in Conn |-> "idle"]
    /\ msg = [c \in Conn |-> NoMsg]
    /\ sessions = [c \in Conn |-> None]
    /\ out = [c \in Conn |-> <<>>]
    /\ calls = NoCalls
    /\ seq = [c \in Conn |-> 0]
    /\ result = [c \in Conn |-> Unset]
    /\ llm_history = [c \in Conn |-> <<>>]
    /\ tmpfiles = {}
    /\ registry = {}
    /\ stt = SttIdle
    /\ tts = load(TtsStart(AgentYaml))

Next ==
    \E c \in Conn :
        \/ Accept(c)
        \/ Receive(c)
        \/ Disconnect(c)
        \/ es_end(c)
        \/ es_analyze(c)
        \/ es_store(c)
        \/ es_return(c)

Spec == Init /\ [][Next]_vars

\* session.py:56-57: _sessions.pop(session_id, None).  No code of the server
\* calls it; it is the store's way out, called from outside the handlers.
remove_session(id) ==
    /\ registry' = registry \ {id}
    /\ UNCHANGED <<pc, msg, sessions, out, calls, seq, result, llm_history,
                   tmpfiles, stt, tts>>

\* The server, with remove_session called at any time on any id.
NextRegistry ==
    \/ Next
    \/ \E id \in Conn : remove_session(id)

SpecRegistry == Init /\ [][NextRegistry]_vars

\* session.py:42-45: every caller holds a session made by create_session.
InitAgent ==
    /\ pc = [c \in Callers |-> "drive"]
    /\ msg = [c \in Callers |-> NoMsg]
    /\ sessions = [c \in Callers |-> Some(Session)]
    /\ out = [c \in Callers |-> <<>>]
    /\ calls = NoCalls
    /\ seq = [c \in Callers |-> 0]
    /\ result = [c \in Callers |-> Unset]
    /\ llm_history = [c \in Callers |-> <<>>]
    /\ tmpfiles = {}
    /\ registry = Callers
    /\ stt = SttIdle
    /\ tts = load(TtsStart(AgentYaml))

NextAgent ==
    \E c \in Callers :
        \/ call_agent(c)
        \/ pa_transcribe(c)
        \/ pa_generate(c)
        \/ pa_synthesize(c)
        \/ call_end_session(c)
        \/ es_end(c)
        \/ es_analyze(c)
        \/ es_store(c)
        \/ agent_return(c)

SpecAgent == InitAgent /\ [][NextAgent]_vars

\* One call of stt.transcribe, on any audio.
InitStt ==
    /\ pc = [c \in Conn |-> "idle"]
    /\ msg = [c \in Conn |-> NoMsg]
    /\ sessions = [c \in Conn |-> None]
    /\ out = [c \in Conn |-> <<>>]
    /\ calls = NoCalls
    /\ seq = [c \in Conn |-> 0]
    /\ result = [c \in Conn |-> Unset]
    /\ llm_history = [c \in Conn |-> <<>>]
    /\ tmpfiles = {}
    /\ registry = {}
    /\ \E r1, r2 \in RecognizerReplies : stt = SttCall(<<r1, r2>>)
    /\ tts = load(TtsStart(AgentYaml))

NextStt == stt_first \/ stt_retry \/ stt_return

SpecStt == InitStt /\ [][NextStt]_vars

\* Tasks calling tts.synthesize, with or without load() before them.
InitTts ==
    /\ pc = [c \in Conn |-> "idle"]
    /\ msg = [c \in Conn |-> NoMsg]
    /\ sessions = [c \in Conn |-> None]
    /\ out = [c \in Conn |-> <<>>]
    /\ calls = NoCalls
    /\ seq = [c \in Conn |-> 0]
    /\ result = [c \in Conn |-> Unset]
    /\ llm_history = [c \in Conn |-> <<>>]
    /\ tmpfiles = {}
    /\ registry = {}
    /\ stt = SttIdle
    /\ \E cfg \in Configs : tts = TtsStart(cfg)

NextTts ==
    \/ tts_load
    \/ \E c \in Conn : tts_synthesize(c)

SpecTts == InitTts /\ [][NextTts]_vars

(***************************************************************************)
(* Vocabulary of the properties.                                           *)
(***************************************************************************)
\* Connection c took a frame in this step.
TookFrame(c) == seq'[c] = seq[c] + 1

\* A binary frame of at least the minimum size that the converter accepts.
Converted(m) ==
    m.kind = "bytes" /\ m.size >= MIN_AUDIO_BYTES /\ m.conv

\* ... on which recognition, response and synthesis all succeed, with text.
FullPipelineFrame(m) ==
    Converted(m) /\ m.sttOk /\ m.text # "" /\ m.llmOk /\ m.ttsOk

\* ... on which the Recognizer, the Responder or the Synthesizer raises.
PipelineFaultFrame(m) ==
    /\ Converted(m)
    /\ \/ ~m.sttOk
       \/ m.sttOk /\ m.text # "" /\ ~m.llmOk
       \/ m.sttOk /\ m.text # "" /\ m.llmOk /\ ~m.ttsOk

\* ... whose recognized text is empty.
SilentFrame(m) ==
    Converted(m) /\ m.sttOk /\ m.text = ""

Live(c) == sessions[c] # None
TheSession(c) == sessions[c][1]

InEndSession(c) ==
    pc[c] \in {"es_call", "es_analyze", "es_store", "es_return", "es_raised"}

(***************************************************************************)
(* C1.  A frame of at least the minimum size that converts, is recognized  *)
(* as non-empty text and is answered and synthesized without a fault makes *)
(* the handler send exactly a transcription event, a response event and    *)
(* one audio frame, in this order and before anything of a later frame,    *)
(* and the handler goes on to the next frame.                              *)
(***************************************************************************)
C1_ThreeEventsInOrder ==
    [][\A c \in Conn :
        (TookFrame(c) /\ FullPipelineFrame(msg'[c])) =>
            /\ out'[c] = out[c] \o
                   <<Transcription(msg'[c].text, msg'[c].lang),
                     Response(msg'[c].reply), Audio(msg'[c].reply)>>
            /\ pc'[c] = "recv"]_vars

(***************************************************************************)
(* C2.  When the Recognizer, the Responder or the Synthesizer raises on a  *)
(* frame, the handler sends one error event for it, the session is not     *)
(* marked ended and the handler goes on to the next frame.                 *)
(***************************************************************************)
C2_PipelineFaultReported ==
    [][\A c \in Conn :
        (TookFrame(c) /\ PipelineFaultFrame(msg'[c])) =>
            /\ Len(out'[c]) = Len(out[c]) + 1
            /\ SubSeq(out'[c], 1, Len(out[c])) = out[c]
            /\ out'[c][Len(out'[c])].type = "error"
            /\ ~sessions'[c][1].ended
            /\ pc'[c] = "recv"]_vars

(***************************************************************************)
(* C3.  A binary frame below the minimum size (an empty one included) runs *)
(* neither the converter nor any pipeline stage, leaves every session as   *)
(* it is, sends exactly one transcription event with empty text and        *)
(* language, and the handler goes on to the next frame.                    *)
(***************************************************************************)
C3_SmallFrameSkipped ==
    [][\A c \in Conn :
        (TookFrame(c) /\ msg'[c].kind = "bytes"
                      /\ msg'[c].size < MIN_AUDIO_BYTES) =>
            /\ out'[c] = Append(out[c], Transcription("", ""))
            /\ calls' = calls
            /\ sessions' = sessions
            /\ pc'[c] = "recv"]_vars

C3_Witness ==
    \E c \in Conn :
        /\ seq[c] > 0
        /\ msg[c].kind = "bytes"
        /\ msg[c].size = MIN_AUDIO_BYTES - 1
        /\ pc[c] = "recv"
        /\ out[c][Len(out[c])] = Transcription("", "")

(***************************************************************************)
(* C4.  A frame whose recognized text is empty appends no turn, invokes    *)
(* neither the Responder nor the Synthesizer, and the one message sent for *)
(* it is a transcription event with empty text and language.               *)
(***************************************************************************)
C4_SilentFrameOnlyTranscription ==
    [][\A c \in Conn :
        (TookFrame(c) /\ SilentFrame(msg'[c])) =>
            /\ out'[c] = Append(out[c], Transcription("", ""))
            /\ sessions'[c][1].turns = sessions[c][1].turns
            /\ calls'.llm = calls.llm
            /\ calls'.tts = calls.tts]_vars

(***************************************************************************)
(* C5.  Whenever the Responder is invoked, the history it is given is the  *)
(* session's {role, text} history without the user turn being answered:    *)
(* putting that user turn back at the end gives the session's history.     *)
(***************************************************************************)
C5_ResponderSeesEarlierTurnsOnly ==
    [][\A c \in DOMAIN pc :
        (pc[c] = "pa_llm" /\ pc'[c] # "pa_llm") =>
            /\ calls'.llm = calls.llm + 1
            /\ Append(llm_history'[c],
                      [role |-> "user", text |-> msg[c].text])
                 = get_history(sessions[c][1])]_vars

C5_Witness ==
    \E c \in DOMAIN pc :
        /\ pc[c] = "pa_tts"
        /\ calls.llm > 0
        /\ Len(llm_history[c]) >= 2

(***************************************************************************)
(* C6.  A frame processed without a fault, with non-empty recognized text, *)
(* appends exactly two turns to its session: a user turn with the          *)
(* recognized text and language, then an assistant turn with the reply.    *)
(***************************************************************************)
C6_TwoTurnsPerFrame ==
    [][\A c \in Conn :
        (TookFrame(c) /\ FullPipelineFrame(msg'[c])) =>
            LET before == sessions[c][1].turns
                after == sessions'[c][1].turns
            IN  /\ Len(after) = Len(before) + 2
                /\ SubSeq(after, 1, Len(before)) = before
                /\ after[Len(before) + 1] =
                       Turn("user", msg'[c].text, msg'[c].lang)
                /\ after[Len(before) + 2].role = "assistant"
                /\ after[Len(before) + 2].text = msg'[c].reply]_vars

(***************************************************************************)
(* C7.  Once the handler is through with an end_session frame, it has      *)
(* returned, the last thing it sent is a summary event whose turn_count is *)
(* the number of turns of the session, it sent no other summary event, and *)
(* the session is ended.                                                   *)
(***************************************************************************)
SummaryEvents(c) ==
    {i \in 1..Len(out[c]) : out[c][i].type = "summary"}

C7_EndSessionSummary ==
    \A c \in Conn :
        (seq[c] > 0 /\ msg[c] = TextMsg("end_session") /\ ~InEndSession(c)) =>
            /\ pc[c] = "closed"
            /\ Len(out[c]) > 0
            /\ out[c][Len(out[c])].type = "summary"
            /\ out[c][Len(out[c])].turn_count =
                   Some(Len(TheSession(c).turns))
            /\ Cardinality(SummaryEvents(c)) = 1
            /\ TheSession(c).ended

C7_Witness ==
    \E c \in Conn :
        /\ seq[c] > 1
        /\ msg[c] = TextMsg("end_session")
        /\ pc[c] = "closed"
        /\ Cardinality(SummaryEvents(c)) = 1
        /\ Len(out[c]) >= 3

(***************************************************************************)
(* C8.  No step changes the turns of a session whose ended flag is set.    *)
(***************************************************************************)
C8_NoTurnAfterEnded ==
    [][\A c \in Conn :
        (Live(c) /\ TheSession(c).ended) =>
            sessions'[c][1].turns = TheSession(c).turns]_vars

\* One session ended and analysed, while another connection is still
\* being sent audio.
C8_Witness ==
    \E c, d \in Conn :
        /\ c # d
        /\ Live(c) /\ TheSession(c).ended /\ TheSession(c).summary # None
        /\ pc[c] = "closed"
        /\ seq[d] > 0 /\ msg[d].kind = "bytes" /\ pc[d] = "recv"

(***************************************************************************)
(* C9.  A session that is not ended has neither summary nor sentiment, and *)
(* a session that is ended stays ended.                                    *)
(***************************************************************************)
UnsetWhileActive ==
    \A c \in Conn :
        (Live(c) /\ ~TheSession(c).ended) =>
            (TheSession(c).summary = None /\ TheSession(c).sentiment = None)

C9_EndedMonotonic ==
    /\ []UnsetWhileActive
    /\ [][\A c \in Conn :
            (Live(c) /\ TheSession(c).ended) => sessions'[c][1].ended]_vars

C9_Witness ==
    \E c \in Conn :
        /\ Live(c) /\ TheSession(c).ended
        /\ TheSession(c).summary # None /\ TheSession(c).sentiment # None
        /\ pc[c] = "es_return"

(***************************************************************************)
(* C10.  Once end_session has returned its result (the value the handler   *)
(* sends as the summary event), the session is ended and its summary and   *)
(* sentiment are both set.                                                 *)
(***************************************************************************)
C10_AnalysisStored ==
    \A c \in DOMAIN pc :
        (pc[c] = "es_return" \/ (pc[c] = "done" /\ result[c].kind = "dict")) =>
            /\ TheSession(c).ended
            /\ TheSession(c).summary # None
            /\ TheSession(c).sentiment # None

ConversionFails(m) ==
    /\ m.kind = "bytes" /\ m.size >= MIN_AUDIO_BYTES
    /\ m.ffmpeg \in {"exit_nonzero", "timeout"}

C12_ConversionFailureReported ==
    [][\A c \in Conn :
        (TookFrame(c) /\ ConversionFails(msg'[c])) =>
            /\ out'[c] = Append(out[c], Error("Audio format conversion failed."))
            /\ calls' = [calls EXCEPT !.conv = @ + 1]
            /\ result'[c] = Unset
            /\ sessions' = sessions
            /\ pc'[c] = "recv"
            /\ tmpfiles' = tmpfiles
            /\ \A f \in tmpfiles' : ~(f.conn = c /\ f.n = seq'[c])]_vars

\* Both kinds of failure have happened on one connection, which is still
\* open with its session untouched.
C12_Witness ==
    \E c \in Conn :
        /\ pc[c] = "recv" /\ seq[c] = 2
        /\ msg[c] = ConverterFault("timeout")
        /\ out[c] = <<SessionStart(c),
                      Error("Audio format conversion failed."),
                      Error("Audio format conversion failed.")>>
        /\ calls.conv = 2
        /\ TheSession(c) = Session
        /\ tmpfiles = {}

(***************************************************************************)
(* C13.  The turns of a session only ever grow at the end: after any step  *)
(* the earlier sequence of turns is a prefix of the later one.  And in     *)
(* every state get_history() is the sequence of the {role, text} pairs of  *)
(* the turns, one per turn, in insertion order.                            *)
(***************************************************************************)
IsPrefix(a, b) ==
    Len(a) <= Len(b) /\ \A i \in 1..Len(a) : a[i] = b[i]

RoleTextProjection(h, turns) ==
    /\ Len(h) = Len(turns)
    /\ \A i \in 1..Len(turns) :
          /\ DOMAIN h[i] = {"role", "text"}
          /\ h[i].role = turns[i].role
          /\ h[i].text = turns[i].text

C13_TurnsAppendOnly ==
    /\ [](\A c \in DOMAIN pc :
            RoleTextProjection(get_history(TheSession(c)), TheSession(c).turns))
    /\ [][\A c \in DOMAIN pc :
            IsPrefix(TheSession(c).turns, TheSession(c).turns')]_vars

\* Two exchanges were recorded and the session was then ended.
C13_Witness ==
    \E c \in DOMAIN pc :
        /\ pc[c] = "done"
        /\ Len(TheSession(c).turns) = 4
        /\ get_history(TheSession(c))[1] = [role |-> "user", text |-> "bonjour"]
        /\ get_history(TheSession(c))[4] = [role |-> "assistant", text |-> "hi"]

\* The analyzer has just returned to end_session, or raised into it.
AnalyzerDone(c) == pc[c] \in {"es_store", "es_raised"}

(***************************************************************************)
(* C14.  Called with a history that is not empty, the analyzer never lets  *)
(* an exception out, whatever fails; and the result it returns for a       *)
(* failure has sentiment overall "unknown" with score 0.5, turn_count the  *)
(* length of the history and languages_used empty.                         *)
(***************************************************************************)
C14_AnalyzerNeverRaises ==
    \A c \in DOMAIN pc :
        (AnalyzerDone(c) /\ Len(TheSession(c).turns) > 0) =>
            /\ pc[c] # "es_raised"
            /\ result[c].kind = "dict"
            /\ result[c].summary = Some("Analysis could not be completed.") =>
                   /\ result[c].sentiment # None
                   /\ result[c].sentiment[1].overall = "unknown"
                   /\ result[c].sentiment[1].score = 5
                   /\ result[c].turn_count = Some(Len(TheSession(c).turns))
                   /\ result[c].languages_used = Some(<<>>)

(***************************************************************************)
(* C15.  Whatever the analyzer returns (for an empty history, from a       *)
(* parsed Summarizer reply, or after a failure) has all four of summary,   *)
(* sentiment, turn_count and languages_used, and its turn_count is the     *)
(* number of turns of the session.                                         *)
(***************************************************************************)
C15_ResultWellFormed ==
    \A c \in DOMAIN pc :
        (AnalyzerDone(c) /\ result[c].kind = "dict") =>
            /\ result[c].summary # None
            /\ result[c].sentiment # None
            /\ result[c].turn_count = Some(Len(TheSession(c).turns))
            /\ result[c].languages_used # None

(***************************************************************************)
(* C16.  Analyzing a session without turns gives the fixed result: the     *)
(* no-conversation summary, sentiment neutral with score 0.5, turn_count   *)
(* 0, languages_used empty; and the Summarizer is not called for it.       *)
(***************************************************************************)
C16_EmptySessionFixedResult ==
    [][\A c \in DOMAIN pc :
        (pc[c] = "es_analyze" /\ pc'[c] # "es_analyze"
                              /\ Len(TheSession(c).turns) = 0) =>
            /\ pc'[c] = "es_store"
            /\ result'[c].kind = "dict"
            /\ result'[c].summary = Some("No conversation took place.")
            /\ result'[c].sentiment # None
            /\ result'[c].sentiment[1].overall = "neutral"
            /\ result'[c].sentiment[1].score = 5
            /\ result'[c].turn_count = Some(0)
            /\ result'[c].languages_used = Some(<<>>)
            /\ calls'.summarizer = calls.summarizer]_vars

\* A session that heard only silence was ended, and the caller has the result.
C16_Witness ==
    \E c \in DOMAIN pc :
        /\ pc[c] = "done" /\ seq[c] > 0
        /\ TheSession(c).turns = <<>>
        /\ TheSession(c).ended
        /\ result[c].kind = "dict"
        /\ result[c].summary = Some("No conversation took place.")
        /\ TheSession(c).summary = Some("No conversation took place.")
        /\ calls.summarizer = 0

(***************************************************************************)
(* C17.  A ping control frame is answered with exactly one pong event and  *)
(* has no other effect: the sessions (turns, ended, summary, sentiment)    *)
(* and the registry are as before, no collaborator of the pipeline runs,   *)
(* and the handler goes on to read the next frame.                         *)
(***************************************************************************)
C17_PingPong ==
    [][\A c \in Conn :
        (TookFrame(c) /\ msg'[c] = TextMsg("ping")) =>
            /\ out'[c] = Append(out[c], Pong)
            /\ \A d \in Conn \ {c} : out'[d] = out[d]
            /\ sessions' = sessions
            /\ registry' = registry
            /\ calls' = calls
            /\ tmpfiles' = tmpfiles
            /\ pc'[c] = "recv"]_vars

\* Two pings in a row, each answered, and the connection is still reading.
C17_Witness ==
    \E c \in Conn :
        /\ pc[c] = "recv" /\ seq[c] = 2
        /\ msg[c] = TextMsg("ping")
        /\ out[c] = <<SessionStart(c), Pong, Pong>>
        /\ TheSession(c) = Session
        /\ calls = NoCalls

(***************************************************************************)
(* C20.  A session is in the registry from the moment its connection is    *)
(* accepted.  No step of a handler takes it out: only remove_session(id)   *)
(* does, and ending the session (by end_session or by the cleanup on a     *)
(* disconnect) leaves the registry as it is.  get_session(id) returns the  *)
(* session, ended or not, as long as it has not been removed, and nothing  *)
(* afterwards.                                                             *)
(***************************************************************************)
Accepted(c) == pc[c] # "idle"

C20_RegistryLifecycle ==
    /\ [](\A c \in Conn :
            /\ (~Accepted(c)) => get_session(registry, sessions, c) = None
            /\ (Accepted(c) /\ c \in registry) =>
                   get_session(registry, sessions, c) = Some(TheSession(c))
            /\ (Accepted(c) /\ c \notin registry) =>
                   get_session(registry, sessions, c) = None)
    /\ [][\A c \in Conn :
            \* entered on accept
            /\ (~Accepted(c) /\ Accepted(c)') => c \in registry'
            \* a step that takes an id out does nothing else
            /\ (c \in registry /\ c \notin registry') =>
                   /\ registry' = registry \ {c}
                   /\ UNCHANGED <<pc, sessions, out>>
            \* a step of a handler, ending the session or not, takes none out
            /\ (pc'[c] # pc[c] \/ sessions'[c] # sessions[c]) =>
                   registry \subseteq registry']_vars

\* One session ended by end_session and still found; another ended by the
\* cleanup after a disconnect, removed, and no longer found.
C20_Witness ==
    \E c, d \in Conn :
        /\ pc[c] = "closed" /\ msg[c] = TextMsg("end_session")
        /\ TheSession(c).ended /\ c \in registry
        /\ get_session(registry, sessions, c) = Some(TheSession(c))
        /\ pc[d] = "closed" /\ msg[d] # TextMsg("end_session")
        /\ TheSession(d).ended /\ d \notin registry
        /\ get_session(registry, sessions, d) = None

(***************************************************************************)
(* C18.  transcribe calls the Recognizer first with the VAD filter on and  *)
(* the thresholds 0.3, 600 ms, 100 ms, 400 ms.  When that call gives text  *)
(* that is not empty after trimming, that text is returned and there is no *)
(* second call.  When it gives none, there is exactly one more call, with  *)
(* the filter off, and its text is returned, empty or not.  The language   *)
(* returned is "en" whenever the Recognizer reported none with the result  *)
(* used, and the reported one otherwise.                                   *)
(***************************************************************************)
\* Some segment holds a character that is not a blank.
NonBlank(segments) ==
    \E i \in 1..Len(segments) :
        \E j \in 1..Len(segments[i]) : segments[i][j] # " "

C18_TwoPhaseRecognition ==
    /\ Len(stt.calls) <= 2
    /\ Len(stt.calls) >= 1 =>
          /\ stt.calls[1].vad_filter
          /\ stt.calls[1].vad_parameters =
                Some([threshold |-> 3, min_silence_duration_ms |-> 600,
                      min_speech_duration_ms |-> 100, speech_pad_ms |-> 400])
    /\ Len(stt.calls) = 2 =>
          /\ ~stt.calls[2].vad_filter
          /\ ~NonBlank(stt.replies[1].segments)
    /\ stt.pc = "returned" =>
          LET first == stt.replies[1]
              used == IF NonBlank(first.segments) THEN first ELSE stt.replies[2]
              ret == stt.returned[1]
          IN  /\ Len(stt.calls) = IF NonBlank(first.segments) THEN 1 ELSE 2
              /\ ret.text = full_text(used.segments)
              /\ NonBlank(first.segments) => ret.text # <<>>
              /\ used.language = None => ret.language = "en"
              /\ used.language \notin {None, Some("")} =>
                     ret.language = used.language[1]

\* The first call gave blanks only; the second gave two segments and no
\* language.
C18_Witness ==
    /\ stt.pc = "returned"
    /\ stt.replies[1].segments = <<<<" ">>, <<>>>>
    /\ stt.replies[1].language = Some("fr")
    /\ stt.replies[2].language = None
    /\ Len(stt.calls) = 2
    /\ stt.returned = Some([text |-> <<"a", " ", "b">>, language |-> "en"])

(***************************************************************************)
(* C19.  For every language code at most one pipeline is ever made, also   *)
(* when several tasks ask for a code that is not cached yet; and a cached  *)
(* pipeline is never replaced and never removed.                           *)
(***************************************************************************)
C19_PipelineBuiltOnce ==
    /\ [](\A k \in LangCodes :
            /\ tts.built[k] <= 1
            /\ k \in tts.pipelines <=> tts.built[k] = 1)
    /\ [][/\ tts.pipelines \subseteq tts'.pipelines
          /\ \A k \in LangCodes : tts'.built[k] >= tts.built[k]]_vars

\* Without load(), two tasks have each had audio for the same code, and
\* one pipeline was made for it.
C19_Witness ==
    \E c, d \in Conn :
        /\ c # d
        /\ ~tts.loaded
        /\ result[c].kind = "bytes" /\ result[c].lang_code = "f"
        /\ result[d].kind = "bytes" /\ result[d].lang_code = "f"
        /\ tts.built["f"] = 1


(***************************************************************************)
(* C21.  When process_audio fails in synthesis, after the user turn was    *)
(* recorded and the reply was generated, the session holds no assistant    *)
(* turn for that reply: its last turn is the user turn of the frame, which *)
(* is kept.                                                                *)
(***************************************************************************)
\* process_audio has just raised for caller c, at the synthesis step.
SynthesisFailed(c) ==
    /\ pc[c] = "drive" /\ seq[c] > 0
    /\ result[c] = Raised
    /\ msg[c].sttOk /\ msg[c].text # "" /\ msg[c].llmOk

C21_NoOrphanedReply ==
    \A c \in DOMAIN pc :
        SynthesisFailed(c) =>
            LET turns == TheSession(c).turns
            IN  /\ Len(turns) > 0
                /\ turns[Len(turns)].role = "user"
                /\ turns[Len(turns)].text = msg[c].text

(***************************************************************************)
(* C22.  Whatever one connection's handler does (a frame, a failure, an    *)
(* end_session, the cleanup after a disconnect) changes no session but its *)
(* own: the turns, ended, summary and sentiment of every other             *)
(* connection's session, and what was sent to the other clients, are the   *)
(* same after the step, in every interleaving of the handlers.             *)
(***************************************************************************)
\* The handler of connection c made this step.
Acted(c) == pc'[c] # pc[c] \/ seq'[c] # seq[c]

C22_SessionsIsolated ==
    [][\A c \in Conn :
        /\ Acted(c) =>
              \A d \in Conn \ {c} :
                  /\ sessions'[d] = sessions[d]
                  /\ out'[d] = out[d]
                  /\ pc'[d] = pc[d]
        /\ sessions'[c] # sessions[c] => Acted(c)]_vars

\* One connection was ended by end_session and has its summary; the other,
\* accepted before that and having taken a frame since, is open and its
\* session is as created.
C22_Witness ==
    \E c, d \in Conn :
        /\ c # d
        /\ pc[c] = "closed" /\ msg[c] = TextMsg("end_session")
        /\ TheSession(c).ended /\ TheSession(c).summary # None
        /\ pc[d] = "recv" /\ seq[d] > 0
        /\ TheSession(d) = Session

====
